---- MODULE Spec2Model ----
(***************************************************************************)
(* Model of conan_recipe/build_conan_recipes.py: ConanRecipeBuilder        *)
(* (find_recipes, build_recipe, build_all) and main.                       *)
(*                                                                         *)
(* Under Spec one behaviour is one invocation of main after argument       *)
(* parsing.  The environment is the file system below the recipe           *)
(* directory, the outcome of every external `conan create` process, and    *)
(* the operator, who may interrupt the run (KeyboardInterrupt).  Under     *)
(* SpecPair the script is invoked a second time with --fail-fast flipped.  *)
(***************************************************************************)
EXTENDS Integers, Sequences, FiniteSets, TLC

\* ---------------------------------------------------------------- bounds
\* Largest number of entries directly below the recipe directory.
MaxEntries == 3

\* ------------------------------------------------------ input universes
\* Entry names, as sequences of code points: "a", "ab", "b", "c".
Names == { <<97>>, <<97, 98>>, <<98>>, <<99>> }

RecipeDirs == { "/work/conan_recipe" }

\* choices=[...] of --build-type
BuildTypes == { "Debug", "Release", "RelWithDebInfo", "MinSizeRel" }

\* What the recipe directory itself is.
RootKinds == { "missing", "file", "dir" }

\* An entry below the recipe directory: a plain file, or a directory that
\* does or does not hold an entry called conanfile.py.
EntryKinds == { [is_dir |-> FALSE, has_conanfile |-> FALSE],
                [is_dir |-> TRUE,  has_conanfile |-> FALSE],
                [is_dir |-> TRUE,  has_conanfile |-> TRUE] }

\* Return codes of the external process: killed by a signal, success, error.
ExitCodes == { -9, 0, 2 }

\* What one subprocess.run call can do: return with a code, fail to launch
\* (OSError), raise another Exception, or be cut by the operator's interrupt.
Outcomes ==
    [kind : {"exit"}, code : ExitCodes]
      \cup [kind : {"launch_failure", "exception", "interrupt"}, code : {0}]

\* What the directory listing can do.
ListOutcomes == [kind : {"listed", "oserror"}, code : {0}]

\* The operator at a point outside build_recipe: lets the run go on, or
\* interrupts it.
Proceeds == [kind |-> "proceed", code |-> 0]

Interrupts == [kind |-> "interrupt", code |-> 0]

\* exit_status while main has not returned
NoExit == -1

VARIABLES
    args,         \* parsed command line: recipe_dir, build_type, verbose, dry_run, fail_fast
    fs,           \* file system: kind of the root, entries below it
    builder,      \* the ConanRecipeBuilder object
    pc,           \* position of the run
    recipes,      \* build_all: local `recipes`
    idx,          \* build_all: position of the for loop (1-based)
    failures,     \* build_all: local `failures`
    ret,          \* value returned by build_all
    raised,       \* exception propagating out of build_all
    attempts,     \* recipe paths build_recipe has been called with
    results,      \* values returned by build_recipe, in order
    spawned,      \* subprocess.run calls made, in order
    out,          \* lines written to stdout / stderr
    exit_status,  \* value returned by main
    env,          \* what the environment did at each step of this run
    runNo,        \* which invocation of the script this is
    replay,       \* environment of the previous invocation
    prev          \* what the previous invocation did

vars == << args, fs, builder, pc, recipes, idx, failures, ret, raised,
           attempts, results, spawned, out, exit_status, env, runNo,
           replay, prev >>

\* ------------------------------------------------------------- helpers
Msg(stream, msg, a) == [stream |-> stream, msg |-> msg, args |-> a]

Min(a, b) == IF a < b THEN a ELSE b

\* str < str of Python: lexicographic by code point, a proper prefix first.
StrLess(a, b) ==
    \E k \in 1 .. (Min(Len(a), Len(b)) + 1) :
        /\ \A j \in 1 .. (k - 1) : a[j] = b[j]
        /\ \/ k > Len(a) /\ k <= Len(b)
           \/ k <= Len(a) /\ k <= Len(b) /\ a[k] < b[k]

\* Path.__lt__ for two children of the same directory.
PathLess(p, q) == StrLess(p.name, q.name)

\* sorted(iterable of Path)
RECURSIVE sorted(_)
sorted(S) ==
    IF S = {} THEN << >>
    ELSE LET m == CHOOSE x \in S : \A y \in S \ {x} : PathLess(x, y)
         IN  << m >> \o sorted(S \ {m})

\* recipe_dir / name
Child(dir, name) == [parent |-> dir, name |-> name]

\* self.recipe_dir.iterdir()
iterdir(f, dir) == { Child(dir, n) : n \in DOMAIN f.entries }

\* item.is_dir()
is_dir(f, item) == f.entries[item.name].is_dir

\* (item / "conanfile.py").exists()
conanfile_exists(f, item) == f.entries[item.name].has_conanfile

\* A loop body that forgets the manifest.
QualifiesAnyDir(f, item) == is_dir(f, item)

\* The loop body of find_recipes: does `item` get appended?
Qualifies(f, item) == is_dir(f, item) /\ conanfile_exists(f, item)

\* [x for x in s if keep]
RECURSIVE Filter(_, _)
Filter(f, s) ==
    IF s = << >> THEN << >>
    ELSE (IF Qualifies(f, Head(s)) THEN << Head(s) >> ELSE << >>)
            \o Filter(f, Tail(s))

\* ConanRecipeBuilder.__init__ as called by main
NewBuilder(a) ==
    [recipe_dir |-> a.recipe_dir, build_type |-> a.build_type,
     verbose |-> a.verbose, dry_run |-> a.dry_run]

\* A find_recipes whose second error message is a copy of the first.
find_recipes_one_message(self, f) ==
    IF f.root # "dir"
    THEN [recipes |-> << >>,
          out |-> << Msg("stderr", "dir_not_exist", << self.recipe_dir >>) >>]
    ELSE [recipes |-> Filter(f, sorted(iterdir(f, self.recipe_dir))),
          out |-> << >>]

\* ConanRecipeBuilder.find_recipes: the list returned and the lines printed
find_recipes(self, f) ==
    IF f.root = "missing"
    THEN [recipes |-> << >>,
          out |-> << Msg("stderr", "dir_not_exist", << self.recipe_dir >>) >>]
    ELSE IF f.root # "dir"
    THEN [recipes |-> << >>,
          out |-> << Msg("stderr", "not_a_directory", << self.recipe_dir >>) >>]
    ELSE [recipes |-> Filter(f, sorted(iterdir(f, self.recipe_dir))),
          out |-> << >>]

\* The character of a code point.
Chr == ( 97 :> "a" @@ 98 :> "b" @@ 99 :> "c" )

\* A name as text.
RECURSIVE NameStr(_)
NameStr(n) == IF n = << >> THEN "" ELSE Chr[Head(n)] \o NameStr(Tail(n))

\* str(recipe_path): the parent, the separator and the name
PathStr(recipe_path) == recipe_path.parent \o "/" \o NameStr(recipe_path.name)

\* f"build_type={self.build_type}"
BuildTypeSetting(self) == "build_type=" \o self.build_type

\* A cmd that always builds Debug, whatever build type is configured.
CmdDebugOnly(self, recipe_path) ==
    << "conan", "create", PathStr(recipe_path),
       "-s", "build_type=Debug", "--build=missing" >>

\* cmd of build_recipe
Cmd(self, recipe_path) ==
    << "conan", "create", PathStr(recipe_path),
       "-s", BuildTypeSetting(self), "--build=missing" >>

\* A test that takes only positive return codes for failures.
ReturnedNotPositive(o) == o.kind = "exit" /\ o.code <= 0

\* result.returncode == 0
ReturnedZero(o) == o.kind = "exit" /\ o.code = 0

\* A dry run that is honoured only together with --verbose.
SkipsExecutionIfVerbose(self) == self.dry_run /\ self.verbose

\* if self.dry_run: ... return True
SkipsExecution(self) == self.dry_run

\* A bare except clause: it takes the operator's interrupt too.
CaughtBare(o) == o.kind \in {"launch_failure", "exception", "interrupt"}

\* except subprocess.CalledProcessError / except Exception: what subprocess.run
\* raised is caught.  KeyboardInterrupt is a BaseException and is not.
Caught(o) == o.kind \in {"launch_failure", "exception"}

\* ConanRecipeBuilder.build_recipe on recipe_path when the environment does o:
\* the value returned (when nothing is raised), the exception raised, the
\* processes started and the lines printed.
build_recipe(self, recipe_path, o) ==
    LET banner == << Msg("stdout", "building", << recipe_path.name, self.build_type >>) >>
                    \o (IF self.verbose \/ self.dry_run
                        THEN << Msg("stdout", "command", Cmd(self, recipe_path)) >>
                        ELSE << >>)
        proc == [args |-> Cmd(self, recipe_path), cwd |-> recipe_path.parent,
                 capture_output |-> ~ self.verbose, text |-> TRUE,
                 outcome |-> o]
    IN  IF SkipsExecution(self)
        THEN \* no process; the operator may still interrupt the printing
             IF o.kind = "interrupt"
             THEN [ok |-> FALSE, raised |-> "KeyboardInterrupt",
                   spawn |-> << >>, out |-> banner]
             ELSE [ok |-> TRUE, raised |-> "none", spawn |-> << >>,
                   out |-> banner \o << Msg("stdout", "dry_run_skip", << >>) >>]
        ELSE IF o.kind # "exit" /\ ~ Caught(o)
        THEN [ok |-> FALSE, raised |-> "KeyboardInterrupt",
              spawn |-> << proc >>, out |-> banner]
        ELSE IF o.kind = "exit"
        THEN IF ReturnedZero(o)
             THEN [ok |-> TRUE, raised |-> "none", spawn |-> << proc >>,
                   out |-> banner \o << Msg("stdout", "built", << recipe_path.name >>) >>]
             ELSE [ok |-> FALSE, raised |-> "none", spawn |-> << proc >>,
                   out |-> banner \o << Msg("stderr", "build_failed",
                                            << recipe_path.name, o.code >>) >>]
        ELSE \* except Exception
             [ok |-> FALSE, raised |-> "none", spawn |-> << proc >>,
              out |-> banner \o << Msg("stderr", "unknown_error", << recipe_path.name >>) >>]

\* A slip in the count: the test of the result is inverted.
CountFailureInverted(n, ok) == IF ok THEN n + 1 ELSE n

\* build_all: if not self.build_recipe(recipe): failures += 1
CountFailure(n, ok) == IF ~ ok THEN n + 1 ELSE n

\* A loop that breaks at the first failed build.
LoopBreaksOnFailure(a, ok, i, n) == i < n /\ ok

\* A loop that breaks at the first failed build when --fail-fast is given.
LoopBreaksOnFailFast(a, ok, i, n) == i < n /\ (a.fail_fast => ok)

\* build_all: does the for loop go on to the next recipe after this result?
\* a is the parsed command line, ok the result of build_recipe, i the position
\* in recipes and n their number.  The loop has no break and reads neither a
\* nor ok: it runs to the end of `recipes`.
LoopGoesOn(a, ok, i, n) == i < n

\* A main that hands the failure count to sys.exit.
MainResultCount(r, f) ==
    IF r = "KeyboardInterrupt" THEN 130
    ELSE IF r = "Exception" THEN 1
    ELSE f

\* A main whose test of the failure count is off by one.
MainResultNonNegative(r, f) ==
    IF r = "KeyboardInterrupt" THEN 130
    ELSE IF r = "Exception" THEN 1
    ELSE IF f >= 0 THEN 1 ELSE 0

\* main: the value returned for what build_all did
MainResult(r, f) ==
    IF r = "KeyboardInterrupt" THEN 130
    ELSE IF r = "Exception" THEN 1
    ELSE IF f > 0 THEN 1 ELSE 0

\* main: the last line printed
MainMessage(r, f) ==
    IF r = "KeyboardInterrupt" THEN Msg("stderr", "user_interrupt", << >>)
    ELSE IF r = "Exception" THEN Msg("stderr", "unexpected_error", << >>)
    ELSE IF f > 0 THEN Msg("stderr", "recipes_failed", << f >>)
    ELSE Msg("stdout", "all_recipes_ok", << >>)

\* The entry of env for what the environment did (o) at a point of the run:
\* the phase, and the name of the recipe being built.
Event(phase, name, o) ==
    [phase |-> phase, name |-> name, kind |-> o.kind, code |-> o.code]

\* The environment may do o at this point: a repeated invocation meets, at
\* every point the invocation before it came to, what that one met there.
Allowed(phase, name, o) ==
    LET past == { i \in DOMAIN replay :
                    replay[i].phase = phase /\ replay[i].name = name }
    IN  IF past = {} THEN TRUE
        ELSE \E i \in past : replay[i] = Event(phase, name, o)

\* ---------------------------------------------------------------- Init
FileSystems ==
    { [root |-> "missing", entries |-> << >>],
      [root |-> "file", entries |-> << >>] }
    \cup
    UNION { { [root |-> "dir", entries |-> e] : e \in [D -> EntryKinds] }
            : D \in { X \in SUBSET Names : Cardinality(X) <= MaxEntries } }

Header(a) ==
    << Msg("stdout", "tool_name", << >>),
       Msg("stdout", "recipe_dir", << a.recipe_dir >>),
       Msg("stdout", "build_type", << a.build_type >>) >>

NoRun == [attempts |-> << >>, results |-> << >>, spawned |-> << >>,
          ret |-> 0, raised |-> "none", exit_status |-> NoExit,
          fail_fast |-> FALSE]

\* The state of main when it is about to call builder.build_all().
Start(a) ==
    /\ builder = NewBuilder(a)
    /\ pc = "find_recipes"
    /\ recipes = << >>
    /\ idx = 0
    /\ failures = 0
    /\ ret = 0
    /\ raised = "none"
    /\ attempts = << >>
    /\ results = << >>
    /\ spawned = << >>
    /\ out = Header(a)
    /\ exit_status = NoExit
    /\ env = << >>

Init ==
    /\ args \in [recipe_dir : RecipeDirs, build_type : BuildTypes,
                 verbose : BOOLEAN, dry_run : BOOLEAN, fail_fast : BOOLEAN]
    /\ fs \in FileSystems
    /\ Start(args)
    /\ runNo = 1
    /\ replay = << >>
    /\ prev = NoRun

\* ------------------------------------------------------------- actions
\* build_all up to the loop: find_recipes, the empty check, the list printed.
FindRecipes ==
    /\ pc = "find_recipes"
    /\ \E e \in ListOutcomes :
        /\ Allowed("find_recipes", << >>, e)
        /\ e.kind = "oserror" => fs.root = "dir"
        /\ env' = Append(env, Event("find_recipes", << >>, e))
        /\ IF e.kind = "oserror"
           THEN /\ raised' = "Exception"
                /\ pc' = "main"
                /\ UNCHANGED << recipes, idx, failures, ret, out >>
           ELSE LET r == find_recipes(builder, fs) IN
                /\ recipes' = r.recipes
                /\ raised' = raised
                /\ IF r.recipes = << >>
                   THEN /\ out' = out \o r.out
                                    \o << Msg("stdout", "no_recipes", << builder.recipe_dir >>) >>
                        /\ ret' = 0
                        /\ pc' = "main"
                        /\ UNCHANGED << idx, failures >>
                   ELSE /\ out' = out \o r.out
                                    \o << Msg("stdout", "found", << Len(r.recipes) >>) >>
                                    \o [i \in 1 .. Len(r.recipes) |->
                                          Msg("stdout", "listed", << r.recipes[i].name >>)]
                        /\ failures' = 0
                        /\ idx' = 1
                        /\ pc' = "loop"
                        /\ ret' = ret
    /\ UNCHANGED << args, fs, builder, attempts, results, spawned,
                    exit_status, runNo, replay, prev >>

\* One iteration of the for loop of build_all: build_recipe(recipe) and the
\* count of its failure.
BuildRecipe ==
    /\ pc = "loop"
    /\ idx <= Len(recipes)
    /\ \E o \in Outcomes :
        /\ Allowed("build_recipe", recipes[idx].name, o)
        /\ env' = Append(env, Event("build_recipe", recipes[idx].name, o))
        /\ LET r == build_recipe(builder, recipes[idx], o) IN
            /\ attempts' = Append(attempts, recipes[idx])
            /\ spawned' = spawned \o r.spawn
            /\ out' = out \o r.out
            /\ IF r.raised # "none"
               THEN /\ raised' = r.raised
                    /\ pc' = "main"
                    /\ UNCHANGED << results, failures, idx >>
               ELSE /\ results' = Append(results, r.ok)
                    /\ failures' = CountFailure(failures, r.ok)
                    /\ raised' = raised
                    /\ IF LoopGoesOn(args, r.ok, idx, Len(recipes))
                       THEN idx' = idx + 1 /\ pc' = "loop"
                       ELSE idx' = idx /\ pc' = "summary"
    /\ UNCHANGED << args, fs, builder, recipes, ret, exit_status, runNo,
                    replay, prev >>

\* The end of build_all: the summary and `return failures`.
Summary ==
    /\ pc = "summary"
    /\ Allowed(pc, << >>, Proceeds)
    /\ env' = Append(env, Event(pc, << >>, Proceeds))
    /\ out' = Append(out, Msg("stdout", "summary",
                              << Len(recipes), Len(recipes) - failures, failures >>))
    /\ ret' = failures
    /\ pc' = "main"
    /\ UNCHANGED << args, fs, builder, recipes, idx, failures, raised,
                    attempts, results, spawned, exit_status, runNo, replay, prev >>

\* The operator interrupts build_all outside build_recipe: during discovery,
\* or after the loop and before the summary.
Interrupt ==
    /\ pc \in {"find_recipes", "summary"}
    /\ Allowed(pc, << >>, Interrupts)
    /\ env' = Append(env, Event(pc, << >>, Interrupts))
    /\ raised' = "KeyboardInterrupt"
    /\ pc' = "main"
    /\ UNCHANGED << args, fs, builder, recipes, idx, failures, ret, attempts,
                    results, spawned, out, exit_status, runNo, replay, prev >>

\* main after build_all: the try's return or one of its except clauses.
MainReturn ==
    /\ pc = "main"
    /\ out' = Append(out, MainMessage(raised, ret))
    /\ exit_status' = MainResult(raised, ret)
    /\ pc' = "exit"
    /\ UNCHANGED << args, fs, builder, recipes, idx, failures, ret, raised,
                    attempts, results, spawned, env, runNo, replay, prev >>

Next == FindRecipes \/ BuildRecipe \/ Summary \/ Interrupt \/ MainReturn

Spec == Init /\ [][Next]_vars

\* The script is invoked a second time on the same file system, with the same
\* options except --fail-fast, which is flipped, and meets the same
\* environment (Allowed).  Nothing of the first invocation is kept but the
\* record `prev` of what it did.
Rerun ==
    /\ pc = "exit"
    /\ runNo = 1
    /\ runNo' = 2
    /\ prev' = [attempts |-> attempts, results |-> results, spawned |-> spawned,
                ret |-> ret, raised |-> raised, exit_status |-> exit_status,
                fail_fast |-> args.fail_fast]
    /\ replay' = env
    /\ args' = [args EXCEPT !.fail_fast = ~ @]
    /\ builder' = NewBuilder(args')
    /\ pc' = "find_recipes"
    /\ recipes' = << >>
    /\ idx' = 0
    /\ failures' = 0
    /\ ret' = 0
    /\ raised' = "none"
    /\ attempts' = << >>
    /\ results' = << >>
    /\ spawned' = << >>
    /\ out' = Header(args')
    /\ exit_status' = NoExit
    /\ env' = << >>
    /\ fs' = fs

NextPair == Next \/ Rerun

SpecPair == Init /\ [][NextPair]_vars

\* ------------------------------------------------------------ properties
Range(s) == { s[i] : i \in DOMAIN s }

\* Number of build_recipe calls that returned False.
NumFailed(rs) == Cardinality({ i \in DOMAIN rs : ~ rs[i] })

\* build_all has returned (it was neither interrupted nor left by an exception).
Returned == pc \in {"main", "exit"} /\ raised = "none"

\* The operator interrupted the run.
Interrupted == env # << >> /\ env[Len(env)].kind = "interrupt"

\* Listing the recipe directory raised.
ListingFailed == \E i \in DOMAIN env : env[i].kind = "oserror"

C2_ReturnsFailureCount ==
    Returned =>
        /\ ret = NumFailed(results)
        /\ Len(results) = Len(recipes)
        /\ ( /\ Len(spawned) = 2
             /\ spawned[1].outcome = [kind |-> "exit", code |-> 0]
             /\ spawned[2].outcome = [kind |-> "exit", code |-> 2] ) => ret = 1

\* The scenario of the specification: a succeeds, b has no manifest, c exits 2.
C2_Witness ==
    /\ pc = "exit"
    /\ raised = "none"
    /\ DOMAIN fs.entries = { <<97>>, <<98>>, <<99>> }
    /\ Len(recipes) = 2
    /\ recipes[1].name = <<97>> /\ recipes[2].name = <<99>>
    /\ Len(spawned) = 2
    /\ spawned[1].outcome = [kind |-> "exit", code |-> 0]
    /\ spawned[2].outcome = [kind |-> "exit", code |-> 2]
    /\ ret = 1

\* C3: main returns 0 exactly when every discovered recipe succeeded or none
\* was found, 1 exactly when a recipe failed or an exception escaped
\* build_all, 130 exactly when the operator interrupted; nothing else.
C3_ExitStatus ==
    /\ pc # "exit" => exit_status = NoExit
    /\ pc = "exit" =>
        /\ exit_status \in {0, 1, 130}
        /\ exit_status = 130 <=> Interrupted
        /\ exit_status = 1 <=>
              \/ ~ Interrupted /\ ListingFailed
              \/ ~ Interrupted /\ NumFailed(results) > 0
        /\ exit_status = 0 <=>
              /\ ~ Interrupted
              /\ ~ ListingFailed
              /\ Len(results) = Len(recipes)
              /\ \A i \in DOMAIN results : results[i]

\* A run that ended with status 1 after two failed builds.
C3_Witness ==
    /\ pc = "exit"
    /\ exit_status = 1
    /\ NumFailed(results) = 2

\* C4: with --fail-fast no recipe is attempted after the first one whose
\* build failed.
C4_FailFastStops ==
    args.fail_fast =>
        \A i \in DOMAIN results : ~ results[i] => Len(attempts) <= i

HasMsg(tag) == \E i \in DOMAIN out : out[i].msg = tag

\* The events of env that belong to builds.
BuildEvents == { i \in DOMAIN env : env[i].phase = "build_recipe" }

\* C6: with dry_run no external process is ever started, build_recipe returns
\* True for every recipe, and build_all returns 0, whatever the external tool
\* would have done.
C6_DryRunSpawnsNothing ==
    args.dry_run =>
        /\ spawned = << >>
        /\ \A i \in DOMAIN results : results[i]
        /\ Len(results) =
              Cardinality({ i \in BuildEvents : env[i].kind # "interrupt" })
        /\ Returned => ret = 0 /\ Len(results) = Len(recipes)

\* A dry run over several recipes whose tool would have failed.
C6_Witness ==
    /\ args.dry_run
    /\ pc = "exit"
    /\ Len(results) >= 2
    /\ \E i \in BuildEvents : env[i].kind = "launch_failure"
    /\ \E i \in BuildEvents : env[i].kind = "exit" /\ env[i].code = 2
    /\ exit_status = 0

\* The names of Names in the order of Python's str comparison.
NameRank == ( <<97>> :> 1 @@ <<97, 98>> :> 2 @@ <<98>> :> 3 @@ <<99>> :> 4 )

\* The children of the root that are directories holding conanfile.py.
QualifyingNames ==
    { n \in DOMAIN fs.entries :
        fs.entries[n].is_dir /\ fs.entries[n].has_conanfile }

\* find_recipes has returned in this run.
Discovered ==
    \E i \in DOMAIN env : env[i].phase = "find_recipes" /\ env[i].kind = "listed"

\* C7: for an existing root directory find_recipes returns exactly the
\* children that are directories holding conanfile.py, each once, in
\* lexicographic order of their names; none when no child qualifies.
C7_DiscoveryExactAndSorted ==
    (Discovered /\ fs.root = "dir") =>
        /\ { recipes[i].name : i \in DOMAIN recipes } = QualifyingNames
        /\ Len(recipes) = Cardinality(QualifyingNames)
        /\ \A i \in DOMAIN recipes : recipes[i].parent = args.recipe_dir
        /\ \A i, j \in DOMAIN recipes :
              i < j => NameRank[recipes[i].name] < NameRank[recipes[j].name]

\* Three children, two of them recipes ("a" and "ab"), and one directory
\* without manifest.
C7_Witness ==
    /\ Discovered
    /\ Cardinality(DOMAIN fs.entries) = 3
    /\ QualifyingNames = { <<97>>, <<97, 98>> }
    /\ \E n \in DOMAIN fs.entries :
          fs.entries[n].is_dir /\ ~ fs.entries[n].has_conanfile
    /\ Len(recipes) = 2
    /\ recipes[1].name = <<97>>
    /\ recipes[2].name = <<97, 98>>

\* C8: without dry_run build_recipe returns True exactly when the process was
\* launched and exited with 0; a non-zero code, a launch failure and any other
\* exception become False and do not propagate; one process per attempt, and
\* none for the same recipe twice.
C8_SuccessIffExitZero ==
    ~ args.dry_run =>
        /\ Len(spawned) = Len(attempts)
        /\ \A i \in DOMAIN spawned : spawned[i].args[3] = PathStr(attempts[i])
        /\ \A i, j \in DOMAIN spawned :
              i # j => spawned[i].args[3] # spawned[j].args[3]
        /\ Len(results) =
              Cardinality({ i \in BuildEvents : env[i].kind # "interrupt" })
        /\ \A i \in DOMAIN results :
              results[i] <=> ( /\ spawned[i].outcome.kind = "exit"
                               /\ spawned[i].outcome.code = 0 )
        /\ raised = "Exception" => ListingFailed

\* A run in which a launch failure, an exception, a signal and an exit with 0
\* each gave its result.
C8_Witness ==
    /\ ~ args.dry_run
    /\ pc = "exit"
    /\ Len(results) = 3
    /\ { spawned[i].outcome.kind : i \in 1 .. 2 } = {"launch_failure", "exception"}
    /\ spawned[3].outcome.kind = "exit"
    /\ ~ results[1] /\ ~ results[2]

\* C9: when the root is missing or is not a directory, an error is reported
\* (its own message for each case), no build is attempted, no process is
\* started and no exception leaves build_all: the run ends with no recipe
\* processed.
C9_BadRootNoBuilds ==
    fs.root # "dir" =>
        /\ attempts = << >>
        /\ spawned = << >>
        /\ results = << >>
        /\ raised # "Exception"
        /\ Discovered =>
              /\ recipes = << >>
              /\ pc \in {"main", "exit"}
              /\ HasMsg("dir_not_exist") <=> fs.root = "missing"
              /\ HasMsg("not_a_directory") <=> fs.root = "file"
              /\ ~ HasMsg("summary")

\* A run on a root that is a plain file, at its end.
C9_Witness ==
    /\ fs.root = "file"
    /\ pc = "exit"
    /\ HasMsg("not_a_directory")
    /\ raised = "none"

\* The operator interrupted the run during the build of a recipe.
InterruptedInBuild ==
    /\ env # << >>
    /\ env[Len(env)].kind = "interrupt"
    /\ env[Len(env)].phase = "build_recipe"

\* C10: after an interrupt during a build no later recipe is attempted, the
\* summary is never printed, the run ends with status 130, and the interrupt
\* is not recorded as a failed build of the current recipe.
C10_InterruptAbortsRun ==
    InterruptedInBuild =>
        /\ pc \in {"main", "exit"}
        /\ raised = "KeyboardInterrupt"
        /\ Len(attempts) = Len(results) + 1
        /\ attempts[Len(attempts)].name = env[Len(env)].name
        /\ attempts = SubSeq(recipes, 1, Len(attempts))
        /\ failures = NumFailed(results)
        /\ ~ HasMsg("summary")
        /\ ~ HasMsg("build_failed") \/ NumFailed(results) > 0
        /\ pc = "exit" => exit_status = 130 /\ HasMsg("user_interrupt")

\* A run interrupted in its second build, after a first build that completed,
\* with a third recipe left.
C10_Witness ==
    /\ InterruptedInBuild
    /\ pc = "exit"
    /\ Len(results) = 1
    /\ results[1]
    /\ Len(recipes) = 3
    /\ Len(attempts) = 2

\* The recipe path argument expected for each name below /work/conan_recipe.
ExpectedPathArg ==
    ( <<97>> :> "/work/conan_recipe/a" @@ <<97, 98>> :> "/work/conan_recipe/ab"
      @@ <<98>> :> "/work/conan_recipe/b" @@ <<99>> :> "/work/conan_recipe/c" )

\* The setting argument expected for each build type.
ExpectedSettingArg ==
    ( "Debug" :> "build_type=Debug" @@ "Release" :> "build_type=Release"
      @@ "RelWithDebInfo" :> "build_type=RelWithDebInfo"
      @@ "MinSizeRel" :> "build_type=MinSizeRel" )

\* C11: every external process is invoked with exactly the argument list
\* [conan, create, <recipe path>, -s, build_type=<configured build type>,
\* --build=missing]; the list depends only on the recipe path and the
\* configured build type, which is passed through unmodified.
C11_CommandShape ==
    \A i \in DOMAIN spawned :
        /\ i <= Len(attempts)
        /\ spawned[i].args =
              << "conan", "create", ExpectedPathArg[attempts[i].name], "-s",
                 ExpectedSettingArg[args.build_type], "--build=missing" >>

\* A verbose RelWithDebInfo run whose second process was started for "ab"
\* after the first build had failed.
C11_Witness ==
    /\ args.build_type = "RelWithDebInfo"
    /\ args.verbose
    /\ Len(spawned) >= 2
    /\ Len(results) >= 1
    /\ ~ results[1]
    /\ spawned[2].args =
          << "conan", "create", "/work/conan_recipe/ab", "-s",
             "build_type=RelWithDebInfo", "--build=missing" >>

\* C12: when the root is missing or is not a directory (and the operator does
\* not interrupt), main ends with status 0 and its last line is the
\* all-recipes-succeeded line of a fully successful run; no summary is
\* printed when discovery yields no recipe: a summary is printed only after
\* at least one recipe was discovered and every discovered recipe attempted.
C12_BadRootEndsAsSuccess ==
    /\ (fs.root # "dir" /\ pc = "exit" /\ ~ Interrupted) =>
          /\ exit_status = 0
          /\ out[Len(out)].msg = "all_recipes_ok"
          /\ out[Len(out)].stream = "stdout"
          /\ ~ HasMsg("recipes_failed")
          /\ ~ HasMsg("unexpected_error")
    /\ recipes = << >> => ~ HasMsg("summary")
    /\ HasMsg("summary") =>
          /\ Len(recipes) >= 1
          /\ attempts = recipes
          /\ Len(results) = Len(recipes)

\* A run on a missing root that ended like a successful one.
C12_Witness ==
    /\ fs.root = "missing"
    /\ pc = "exit"
    /\ HasMsg("dir_not_exist")
    /\ exit_status = 0
    /\ out[Len(out)].msg = "all_recipes_ok"
    /\ ~ HasMsg("summary")

====
